---- MODULE Spec2Model ----
(***************************************************************************)
(* Model of the fastapi-clean-architecture core:                           *)
(*   - app/core/config.py: the lru_cache'd settings accessor and the       *)
(*     SettingsReloader (start / stop / _watch_loop) on the asyncio loop;  *)
(*   - app/domains/user: the use cases over the repository port, the      *)
(*     User entity and the SQLAlchemy repository;                          *)
(*   - app/core/exceptions.py and app/core/errors/handlers.py: the error   *)
(*     taxonomy and the boundary handler.                                  *)
(* Spec is the configuration store with its reloader; UserSpec the use     *)
(* cases; RepoSpec the repository port; EntitySpec one User entity;        *)
(* BoundarySpec the error boundary; SessionSpec the request-scoped         *)
(* database session of app/core/database.py; ListSpec GetAllUsers over    *)
(* the stores the port produces.                                           *)
(***************************************************************************)
EXTENDS Integers, Sequences, FiniteSets, TLC

\* ------------------------------------------------------------------ bounds
\* how many watch tasks asyncio.create_task may create in one run
MaxTasks == 2
\* how many Settings objects may be constructed in one run
MaxSnapshots == 2
\* how many User entities may be constructed in one run
MaxUsers == 2
\* how many requests are handled in one run
MaxRequests == 2

\* ------------------------------------------------------- configuration store
VARIABLES
    _running,      \* SettingsReloader._running
    _task,         \* SettingsReloader._task (NoTask is None)
    tasks,         \* the asyncio tasks running _watch_loop, by creation order
    pc,            \* where each coroutine calling start()/stop() stands
    waits,         \* the task a suspended stop() awaits
    env_file,      \* content of the .env file
    cache,         \* the lru_cache of get_settings: a snapshot reference or NoSnapshot
    snapshots,     \* the Settings objects constructed so far, by reference
    held,          \* the reference each reader got from its last accessor call
    last,          \* the operation that ran last: its name, the task or reader
                   \* it is about, and its outcome
    overlap,       \* a start()/stop() began while another stop() was suspended
    stopReturned,  \* a stop() has returned since the last start() that took effect
    reloaded       \* the watcher cleared the cache since the last accessor call

cfgVars == <<_running, _task, tasks, pc, waits, env_file, cache, snapshots,
             held, last, overlap, stopReturned, reloaded>>

\* ----------------------------------------------------------------- user domain
VARIABLES
    store,         \* the users table: UserModel rows in insertion order
    unique_email,  \* whether the storage enforces UNIQUE on users.email
    next_uuid,     \* the next value uuid4() returns
    upc,           \* where each use-case invocation stands
    local,         \* the locals of a suspended invocation
    outcome,       \* the use-case step that ran last: input, port calls, result
    concurrent,    \* an invocation began while another one was suspended
    deleted        \* the ids for which DeleteUser has returned true

userVars == <<store, unique_email, next_uuid, upc, local, outcome, concurrent, deleted>>

\* the error boundary: the exception being handled and what the handler made
\* of it
VARIABLES
    exc,          \* the raised AppError, or NoError
    args,         \* the arguments its constructor was given
    rederived,    \* exc._default_code() called again (at most one element)
    request,      \* the request being served
    response,     \* the JSONResponse of app_exception_handler, or NoResponse
    records       \* the log records emitted while handling exc

boundaryVars == <<exc, args, rederived, request, response, records>>

\* one User entity held by a caller
VARIABLES
    self,         \* the User object (a sequence of at most one element)
    constructed,  \* id and created_at as the constructor set them
    returned      \* the last call on the entity and how it ended

entityVars == <<self, constructed, returned>>

\* the storage sessions of the requests being handled
VARIABLES
    sessions,     \* the AsyncSession of each request: "none", "open", "closed"
    handling      \* how far the handling of each request has come

dbVars == <<sessions, handling>>

vars == <<cfgVars, userVars, boundaryVars, entityVars, dbVars>>

NoTask == 0
NoSnapshot == 0
TaskIds == 1..MaxTasks
Callers == {"c1", "c2"}
Readers == {"r1"}

\* the directory awatch observes holds the .env file and other files
ENV_FILE == ".env"
OtherFile == "README.md"

\* .env contents: APP_NAME set or not, and a key Settings does not declare
EnvContents == [APP_NAME : {"unset", "svc-a"}, EXTRA : {"unset", "x"}]

\* Settings(): declared fields come from the file, else the class default;
\* undeclared keys are ignored (extra="ignore")
Settings(file) ==
    [APP_NAME |-> IF file.APP_NAME = "unset"
                  THEN "FastAPI Clean Architecture"
                  ELSE file.APP_NAME]

Live(t) == tasks[t].st \in {"created", "watching"}
Done(t) == tasks[t].st \in {"finished", "cancelled"}
Created == {t \in TaskIds : tasks[t].st # "none"}
OtherSuspended(c) == \E d \in Callers \ {c} : pc[d] = "stop_await"

\* Task.cancel(): a task that is not done gets CancelledError thrown at its
\* next step; on a done task it does nothing
Cancel(t) ==
    IF Live(t) THEN [tasks EXCEPT ![t].must_cancel = TRUE] ELSE tasks

InitConfig ==
    /\ _running = FALSE
    /\ _task = NoTask
    /\ tasks = [t \in TaskIds |-> [st |-> "none", must_cancel |-> FALSE, changes |-> {}]]
    /\ pc = [c \in Callers |-> "idle"]
    /\ waits = [c \in Callers |-> NoTask]
    /\ cache = NoSnapshot
    /\ snapshots = <<>>
    /\ held = [r \in Readers |-> NoSnapshot]
    /\ last = [op |-> "init", who |-> "", ret |-> ""]
    /\ overlap = FALSE
    /\ stopReturned = FALSE
    /\ reloaded = FALSE

\* get_settings without its lru_cache: every call constructs Settings() anew
get_settings_uncached(r) ==
    /\ Len(snapshots) < MaxSnapshots
    /\ snapshots' = Append(snapshots, Settings(env_file))
    /\ cache' = Len(snapshots) + 1
    /\ held' = [held EXCEPT ![r] = Len(snapshots) + 1]
    /\ reloaded' = FALSE
    /\ last' = [op |-> "get_settings", who |-> r,
                ret |-> IF cache # NoSnapshot THEN "hit" ELSE "miss"]
    /\ UNCHANGED <<_running, _task, tasks, pc, waits, env_file, overlap, stopReturned>>
    /\ UNCHANGED <<userVars, boundaryVars, entityVars, dbVars>>

\* get_settings(): the lru_cache returns the cached object, or calls Settings()
\* once and keeps the result
get_settings(r) ==
    /\ IF cache # NoSnapshot
       THEN /\ held' = [held EXCEPT ![r] = cache]
            /\ UNCHANGED <<cache, snapshots>>
       ELSE /\ Len(snapshots) < MaxSnapshots
            /\ snapshots' = Append(snapshots, Settings(env_file))
            /\ cache' = Len(snapshots) + 1
            /\ held' = [held EXCEPT ![r] = Len(snapshots) + 1]
    /\ reloaded' = FALSE
    /\ last' = [op |-> "get_settings", who |-> r,
                ret |-> IF cache # NoSnapshot THEN "hit" ELSE "miss"]
    /\ UNCHANGED <<_running, _task, tasks, pc, waits, env_file, overlap, stopReturned>>
    /\ UNCHANGED <<userVars, boundaryVars, entityVars, dbVars>>

\* start() without its "if self._running: return"
start_unguarded(c) ==
    /\ pc[c] = "idle"
    /\ Cardinality(Created) < MaxTasks
    /\ LET t == Cardinality(Created) + 1 IN
       /\ _running' = TRUE
       /\ tasks' = [tasks EXCEPT ![t].st = "created"]
       /\ _task' = t
    /\ stopReturned' = FALSE
    /\ last' = [op |-> "start", who |-> "", ret |-> "started"]
    /\ overlap' = (overlap \/ OtherSuspended(c))
    /\ UNCHANGED <<pc, waits, env_file, cache, snapshots, held, reloaded>>
    /\ UNCHANGED <<userVars, boundaryVars, entityVars, dbVars>>

\* start() testing the task as well: "if self._running and not
\* self._task.done(): return", so that a reloader whose task died starts anew
start_unless_task_live(c) ==
    /\ pc[c] = "idle"
    /\ IF _running /\ Live(_task)
       THEN /\ last' = [op |-> "start", who |-> "", ret |-> "noop"]
            /\ UNCHANGED <<_running, _task, tasks, stopReturned>>
       ELSE /\ Cardinality(Created) < MaxTasks
            /\ LET t == Cardinality(Created) + 1 IN
               /\ _running' = TRUE
               /\ tasks' = [tasks EXCEPT ![t].st = "created"]
               /\ _task' = t
            /\ stopReturned' = FALSE
            /\ last' = [op |-> "start", who |-> "", ret |-> "started"]
    /\ overlap' = (overlap \/ OtherSuspended(c))
    /\ UNCHANGED <<pc, waits, env_file, cache, snapshots, held, reloaded>>
    /\ UNCHANGED <<userVars, boundaryVars, entityVars, dbVars>>

\* SettingsReloader.start(): no await inside, so it runs in one step
start(c) ==
    /\ pc[c] = "idle"
    /\ IF _running
       THEN /\ last' = [op |-> "start", who |-> "", ret |-> "noop"]
            /\ UNCHANGED <<_running, _task, tasks, stopReturned>>
       ELSE /\ Cardinality(Created) < MaxTasks
            /\ LET t == Cardinality(Created) + 1 IN
               /\ _running' = TRUE
               /\ tasks' = [tasks EXCEPT ![t].st = "created"]
               /\ _task' = t
            /\ stopReturned' = FALSE
            /\ last' = [op |-> "start", who |-> "", ret |-> "started"]
    /\ overlap' = (overlap \/ OtherSuspended(c))
    /\ UNCHANGED <<pc, waits, env_file, cache, snapshots, held, reloaded>>
    /\ UNCHANGED <<userVars, boundaryVars, entityVars, dbVars>>

\* SettingsReloader.stop() up to its await: the flag is cleared, the task is
\* cancelled, and awaiting a task that is already done does not suspend
stop(c) ==
    /\ pc[c] = "idle"
    /\ IF ~_running
       THEN /\ last' = [op |-> "stop", who |-> _task, ret |-> "noop"]
            /\ stopReturned' = TRUE
            /\ UNCHANGED <<_running, tasks, pc, waits>>
       ELSE /\ _running' = FALSE
            /\ IF _task # NoTask
               THEN /\ tasks' = Cancel(_task)
                    /\ IF Done(_task)
                       THEN /\ last' = [op |-> "stop", who |-> _task, ret |-> "returned"]
                            /\ stopReturned' = TRUE
                            /\ UNCHANGED <<pc, waits>>
                       ELSE /\ pc' = [pc EXCEPT ![c] = "stop_await"]
                            /\ waits' = [waits EXCEPT ![c] = _task]
                            /\ last' = [op |-> "stop", who |-> _task, ret |-> "suspended"]
                            /\ UNCHANGED stopReturned
               ELSE /\ last' = [op |-> "stop", who |-> _task, ret |-> "returned"]
                    /\ stopReturned' = TRUE
                    /\ UNCHANGED <<tasks, pc, waits>>
    /\ overlap' = (overlap \/ OtherSuspended(c))
    /\ UNCHANGED <<_task, env_file, cache, snapshots, held, reloaded>>
    /\ UNCHANGED <<userVars, boundaryVars, entityVars, dbVars>>

\* stop() after its await: the awaited task is done, its CancelledError is
\* swallowed, the call returns
stop_resume(c) ==
    /\ pc[c] = "stop_await"
    /\ Done(waits[c])
    /\ pc' = [pc EXCEPT ![c] = "idle"]
    /\ waits' = [waits EXCEPT ![c] = NoTask]
    /\ stopReturned' = TRUE
    /\ last' = [op |-> "stop", who |-> waits[c], ret |-> "returned"]
    /\ UNCHANGED <<_running, _task, tasks, env_file, cache, snapshots, held,
                   overlap, reloaded>>
    /\ UNCHANGED <<userVars, boundaryVars, entityVars, dbVars>>

\* the loop body comparing against a path no batch holds (the directory
\* instead of the file): the cache is never cleared
on_changes_wrong_path(batch) ==
    IF "." \in batch THEN NoSnapshot ELSE cache

\* the loop body without its path test: every batch clears the cache
on_changes_any_path(batch) ==
    IF batch # {} THEN NoSnapshot ELSE cache

\* what one batch of awatch does to the cache: cache_clear() when the batch
\* names the .env file, nothing otherwise
on_changes(batch) ==
    IF ENV_FILE \in batch THEN NoSnapshot ELSE cache

\* _watch_loop, first step of the task: a task cancelled before it ran never
\* enters the coroutine; otherwise the loop opens awatch and suspends on its
\* first read
watch_begin(t) ==
    /\ tasks[t].st = "created"
    /\ tasks' = [tasks EXCEPT ![t].st =
                    IF tasks[t].must_cancel THEN "cancelled" ELSE "watching"]
    /\ last' = [op |-> "watch_begin", who |-> t,
                ret |-> IF tasks[t].must_cancel THEN "cancelled" ELSE "watching"]
    /\ UNCHANGED <<_running, _task, pc, waits, env_file, cache, snapshots, held,
                   overlap, stopReturned, reloaded>>
    /\ UNCHANGED <<userVars, boundaryVars, entityVars, dbVars>>

\* _watch_loop, one iteration: awatch yields the pending batch, the body runs
\* without suspending, and the loop suspends on the next read
watch_changes(t) ==
    /\ tasks[t].st = "watching"
    /\ ~tasks[t].must_cancel
    /\ tasks[t].changes # {}
    /\ cache' = on_changes(tasks[t].changes)
    /\ reloaded' = (reloaded \/ ENV_FILE \in tasks[t].changes)
    /\ tasks' = [tasks EXCEPT ![t].changes = {}]
    /\ last' = [op |-> "watch_changes", who |-> t,
                ret |-> IF ENV_FILE \in tasks[t].changes THEN "cleared" ELSE "ignored"]
    /\ UNCHANGED <<_running, _task, pc, waits, env_file, snapshots, held,
                   overlap, stopReturned>>
    /\ UNCHANGED <<userVars, boundaryVars, entityVars, dbVars>>

\* _watch_loop, the read raises: the try encloses the whole async for, so the
\* exception leaves the loop, is logged, and the coroutine returns
watch_error(t) ==
    /\ tasks[t].st = "watching"
    /\ ~tasks[t].must_cancel
    /\ tasks' = [tasks EXCEPT ![t].st = "finished", ![t].changes = {}]
    /\ last' = [op |-> "watch_error", who |-> t, ret |-> "logged"]
    /\ UNCHANGED <<_running, _task, pc, waits, env_file, cache, snapshots, held,
                   overlap, stopReturned, reloaded>>
    /\ UNCHANGED <<userVars, boundaryVars, entityVars, dbVars>>

\* a loop that finishes the iteration in flight before it honours the
\* cancellation
watch_cancelled_late(t) ==
    /\ tasks[t].st = "watching"
    /\ tasks[t].must_cancel
    /\ cache' = IF ENV_FILE \in tasks[t].changes THEN NoSnapshot ELSE cache
    /\ reloaded' = (reloaded \/ ENV_FILE \in tasks[t].changes)
    /\ tasks' = [tasks EXCEPT ![t].st = "cancelled"]
    /\ last' = [op |-> "watch_cancelled", who |-> t, ret |-> "cancelled"]
    /\ UNCHANGED <<_running, _task, pc, waits, env_file, snapshots, held,
                   overlap, stopReturned>>
    /\ UNCHANGED <<userVars, boundaryVars, entityVars, dbVars>>

\* _watch_loop, cancelled while suspended on the read: CancelledError is thrown
\* at the await whatever the read had ready, and is re-raised
watch_cancelled(t) ==
    /\ tasks[t].st = "watching"
    /\ tasks[t].must_cancel
    /\ tasks' = [tasks EXCEPT ![t].st = "cancelled"]
    /\ last' = [op |-> "watch_cancelled", who |-> t, ret |-> "cancelled"]
    /\ UNCHANGED <<_running, _task, pc, waits, env_file, cache, snapshots, held,
                   overlap, stopReturned, reloaded>>
    /\ UNCHANGED <<userVars, boundaryVars, entityVars, dbVars>>

_watch_loop(t) ==
    \/ watch_begin(t)
    \/ watch_changes(t)
    \/ watch_error(t)
    \/ watch_cancelled(t)

\* the environment writes a file of the watched directory: every open awatch
\* records the path for its next batch
Notify(path) ==
    [t \in TaskIds |->
        IF tasks[t].st = "watching"
        THEN [tasks[t] EXCEPT !.changes = @ \cup {path}]
        ELSE tasks[t]]

write_env(v) ==
    /\ env_file' = v
    /\ tasks' = Notify(ENV_FILE)
    /\ last' = [op |-> "write_env", who |-> "", ret |-> ""]
    /\ UNCHANGED <<_running, _task, pc, waits, cache, snapshots, held,
                   overlap, stopReturned, reloaded>>
    /\ UNCHANGED <<userVars, boundaryVars, entityVars, dbVars>>

write_other ==
    /\ \E t \in TaskIds : tasks[t].st = "watching" /\ OtherFile \notin tasks[t].changes
    /\ tasks' = Notify(OtherFile)
    /\ last' = [op |-> "write_other", who |-> "", ret |-> ""]
    /\ UNCHANGED <<_running, _task, pc, waits, env_file, cache, snapshots, held,
                   overlap, stopReturned, reloaded>>
    /\ UNCHANGED <<userVars, boundaryVars, entityVars, dbVars>>

\* --------------------------------------------------------------- error taxonomy
\* Text is a sequence of one-character strings.
LowerCase == <<"a", "b", "c", "d", "e", "f", "g", "h", "i", "j", "k", "l", "m", "n", "o", "p", "q", "r", "s", "t", "u", "v", "w", "x", "y", "z">>
UpperCase == <<"A", "B", "C", "D", "E", "F", "G", "H", "I", "J", "K", "L", "M", "N", "O", "P", "Q", "R", "S", "T", "U", "V", "W", "X", "Y", "Z">>
IsUpper(ch) == \E i \in DOMAIN UpperCase : UpperCase[i] = ch

\* str.upper() on one character
upper(ch) ==
    IF \E i \in DOMAIN LowerCase : LowerCase[i] = ch
    THEN UpperCase[CHOOSE i \in DOMAIN LowerCase : LowerCase[i] = ch]
    ELSE ch

\* cls.__name__ of the exception classes
class_name(cls) ==
    CASE
         cls = "AppError" -> <<"A", "p", "p", "E", "r", "r", "o", "r">>
      [] cls = "ResourceNotFoundError" -> <<"R", "e", "s", "o", "u", "r", "c", "e", "N", "o", "t", "F", "o", "u", "n", "d", "E", "r", "r", "o", "r">>
      [] cls = "ResourceConflictError" -> <<"R", "e", "s", "o", "u", "r", "c", "e", "C", "o", "n", "f", "l", "i", "c", "t", "E", "r", "r", "o", "r">>
      [] cls = "DomainError" -> <<"D", "o", "m", "a", "i", "n", "E", "r", "r", "o", "r">>
      [] cls = "ValidationError" -> <<"V", "a", "l", "i", "d", "a", "t", "i", "o", "n", "E", "r", "r", "o", "r">>
      [] cls = "BusinessRuleError" -> <<"B", "u", "s", "i", "n", "e", "s", "s", "R", "u", "l", "e", "E", "r", "r", "o", "r">>
      [] cls = "InvalidOperationError" -> <<"I", "n", "v", "a", "l", "i", "d", "O", "p", "e", "r", "a", "t", "i", "o", "n", "E", "r", "r", "o", "r">>
      [] cls = "AuthenticationError" -> <<"A", "u", "t", "h", "e", "n", "t", "i", "c", "a", "t", "i", "o", "n", "E", "r", "r", "o", "r">>
      [] cls = "AuthorizationError" -> <<"A", "u", "t", "h", "o", "r", "i", "z", "a", "t", "i", "o", "n", "E", "r", "r", "o", "r">>
      [] cls = "UserNotFoundError" -> <<"U", "s", "e", "r", "N", "o", "t", "F", "o", "u", "n", "d", "E", "r", "r", "o", "r">>
      [] cls = "UserAlreadyExistsError" -> <<"U", "s", "e", "r", "A", "l", "r", "e", "a", "d", "y", "E", "x", "i", "s", "t", "s", "E", "r", "r", "o", "r">>
      [] cls = "DomainException" -> <<"D", "o", "m", "a", "i", "n", "E", "x", "c", "e", "p", "t", "i", "o", "n">>
      \* classes a caller of the library may define
      [] cls = "UserNotFound" -> <<"U", "s", "e", "r", "N", "o", "t", "F", "o", "u", "n", "d">>
      [] cls = "ConflictingDomainError" -> <<"C", "o", "n", "f", "l", "i", "c", "t", "i", "n", "g", "D", "o", "m", "a", "i", "n", "E", "r", "r", "o", "r">>
      [] cls = "ForbiddenNotFoundError" -> <<"F", "o", "r", "b", "i", "d", "d", "e", "n", "N", "o", "t", "F", "o", "u", "n", "d", "E", "r", "r", "o", "r">>

\* the direct base class of each exception class
base_class(cls) ==
    CASE cls \in {"ResourceNotFoundError", "ResourceConflictError", "DomainError",
                  "AuthenticationError", "AuthorizationError"} -> "AppError"
      [] cls \in {"ValidationError", "BusinessRuleError", "InvalidOperationError"}
             -> "DomainError"
      [] cls = "UserNotFoundError" -> "ResourceNotFoundError"
      [] cls = "UserAlreadyExistsError" -> "ResourceConflictError"
      [] cls = "UserNotFound" -> "AppError"
      [] OTHER -> "Exception"

\* cls.__bases__: one base for the classes of the source; a class defined by
\* a caller may name two taxonomy classes as its bases
bases(cls) ==
    CASE cls = "ConflictingDomainError" -> {"DomainError", "ResourceConflictError"}
      [] cls = "ForbiddenNotFoundError" -> {"AuthorizationError", "ResourceNotFoundError"}
      [] OTHER -> {base_class(cls)}

\* isinstance(exc, of) for an exc of class cls
RECURSIVE isinstance(_, _)
isinstance(cls, of) ==
    IF cls = of THEN TRUE
    ELSE IF cls \in {"Exception", "AppError"} THEN FALSE
    ELSE \E b \in bases(cls) : isinstance(b, of)

\* re.sub(r"(?<!^)(?=[A-Z])", "_", name): "_" goes before every capital
\* letter that is not the first character
RECURSIVE snake(_, _)
snake(name, i) ==
    IF i > Len(name) THEN <<>>
    ELSE (IF i > 1 /\ IsUpper(name[i]) THEN <<"_", name[i]>> ELSE <<name[i]>>)
         \o snake(name, i + 1)

\* _default_code as its docstring words it ("UserNotFoundError" to
\* "USER_NOT_FOUND"): the trailing "Error" is dropped first
_default_code_docstring(cls) ==
    LET name == class_name(cls)
        n == Len(name)
        stem == IF n > 5 /\ SubSeq(name, n - 4, n) = <<"E", "r", "r", "o", "r">>
                THEN SubSeq(name, 1, n - 5) ELSE name
        t == snake(stem, 1)
    IN [i \in DOMAIN t |-> upper(t[i])]

\* AppError._default_code
_default_code(cls) ==
    LET t == snake(class_name(cls), 1) IN [i \in DOMAIN t |-> upper(t[i])]

\* AppError.__init__: "code or self._default_code()", "details or {}";
\* details are a set of <<key, value>> pairs
AppError(cls, code, details) ==
    [status |-> "error", kind |-> cls,
     code |-> IF code = <<>> THEN _default_code(cls) ELSE code,
     details |-> details]

USER_ALREADY_EXISTS == <<"U", "S", "E", "R", "_", "A", "L", "R", "E", "A", "D", "Y", "_", "E", "X", "I", "S", "T", "S">>
INVALID_EMAIL_FORMAT == <<"I", "N", "V", "A", "L", "I", "D", "_", "E", "M", "A", "I", "L", "_", "F", "O", "R", "M", "A", "T">>
INVALID_NAME_FORMAT == <<"I", "N", "V", "A", "L", "I", "D", "_", "N", "A", "M", "E", "_", "F", "O", "R", "M", "A", "T">>
USER_NOT_FOUND == <<"U", "S", "E", "R", "_", "N", "O", "T", "_", "F", "O", "U", "N", "D">>
INVALID_USER_ID_FORMAT == <<"I", "N", "V", "A", "L", "I", "D", "_", "U", "S", "E", "R", "_", "I", "D", "_", "F", "O", "R", "M", "A", "T">>

\* ------------------------------------------------------------------ user domain
Procs == {"p1", "p2"}

\* inputs of CreateUser (the DTO admits any non-empty email and name)
Emails == {<<"a", "@", "x">>, <<"b", "@", "x">>, <<"a", "x">>}
Names == {<<"A", "l">>, <<" ">>}
CreateInputs == [email : Emails, name : Names]

\* id strings a caller may pass: the canonical text of a UUID, another
\* accepted spelling of the first one (braces, upper case), and text that is
\* no UUID
IdStrings ==
    [kind : {"canonical"}, n : 1..MaxUsers]
    \cup {[kind |-> "braced", n |-> 1], [kind |-> "malformed", n |-> MaxUsers + 1]}

\* uuid.UUID(text): the value, or ValueError
UUID(text) ==
    IF text.kind = "malformed"
    THEN [ok |-> FALSE, error |-> "ValueError"]
    ELSE [ok |-> TRUE, uuid |-> text.n]

\* str(uuid): always the canonical spelling
str(uuid) == [kind |-> "canonical", n |-> uuid]

Whitespace == {" ", "\t", "\n"}
contains(text, ch) == \E i \in DOMAIN text : text[i] = ch

\* str.strip()
RECURSIVE strip(_)
strip(text) ==
    IF text = <<>> THEN <<>>
    ELSE IF Head(text) \in Whitespace THEN strip(Tail(text))
    ELSE IF text[Len(text)] \in Whitespace THEN strip(SubSeq(text, 1, Len(text) - 1))
    ELSE text

\* __post_init__ with _validate_name testing "not self.name" alone
User_blank_name_accepted(uuid, email, name, is_active, updated_at) ==
    IF email = <<>> \/ ~contains(email, "@")
    THEN AppError("ValidationError", INVALID_EMAIL_FORMAT, {<<"email", email>>})
    ELSE IF name = <<>>
    THEN AppError("ValidationError", INVALID_NAME_FORMAT, {<<"name", name>>})
    ELSE [status |-> "ok",
          user |-> [id |-> uuid, email |-> email, name |-> name,
                    is_active |-> is_active, updated_at |-> updated_at]]

\* User.__post_init__: _validate_email, then _validate_name
User(uuid, email, name, is_active, updated_at) ==
    IF email = <<>> \/ ~contains(email, "@")
    THEN AppError("ValidationError", INVALID_EMAIL_FORMAT, {<<"email", email>>})
    ELSE IF name = <<>> \/ Len(strip(name)) = 0
    THEN AppError("ValidationError", INVALID_NAME_FORMAT, {<<"name", name>>})
    ELSE [status |-> "ok",
          user |-> [id |-> uuid, email |-> email, name |-> name,
                    is_active |-> is_active, updated_at |-> updated_at]]

\* UserEntityDtoMapper.from_create_input: User(email=dto.email, name=dto.name)
\* with the defaults id=uuid4(), is_active=True, updated_at=None
from_create_input(dto) == User(next_uuid, dto.email, dto.name, TRUE, "None")

\* UserEntityDtoMapper.to_create_output
to_create_output(entity) ==
    [id |-> str(entity.id), email |-> entity.email, name |-> entity.name,
     is_active |-> entity.is_active]

\* SQLAlchemyUserRepository._to_model / _to_entity
_to_model(entity) ==
    [id |-> str(entity.id), email |-> entity.email, name |-> entity.name,
     is_active |-> entity.is_active, updated_at |-> entity.updated_at]

_to_entity(model) ==
    User(UUID(model.id).uuid, model.email, model.name, model.is_active,
         model.updated_at).user

\* result.scalars().first(): the first matching row as an entity, or None
\* (a sequence of at most one element)
first(rows) == IF rows = <<>> THEN <<>> ELSE <<_to_entity(rows[1])>>

\* SQLAlchemyUserRepository.get_by_email / get_by_id
get_by_email(email) == first(SelectSeq(store, LAMBDA m : m.email = email))
get_by_id(uuid) == first(SelectSeq(store, LAMBDA m : m.id = str(uuid)))

\* the INSERT of SQLAlchemyUserRepository.create, at commit: refused by a
\* UNIQUE constraint on email when the storage has one
insert(model) ==
    IF unique_email /\ \E i \in DOMAIN store : store[i].email = model.email
    THEN [status |-> "error", kind |-> "IntegrityError", code |-> <<>>, details |-> {}]
    ELSE [status |-> "ok", user |-> _to_entity(model)]

\* the DELETE of SQLAlchemyUserRepository.delete, at commit
without(uuid) == SelectSeq(store, LAMBDA m : m.id # str(uuid))

Idle == [op |-> "none"]
Pending(p, op, arg, port) ==
    [op |-> op, who |-> p, arg |-> arg, port |-> port, status |-> "pending"]
Finished(p, op, arg, port, result) ==
    [op |-> op, who |-> p, arg |-> arg, port |-> port, status |-> result.status,
     result |-> result]
OthersSuspended(p) == \E q \in Procs \ {p} : upc[q] # "idle"
Suspended(op) == {q \in Procs : upc[q] = op}

InitUsers ==
    /\ store = <<>>
    /\ next_uuid = 1
    /\ upc = [p \in Procs |-> "idle"]
    /\ local = [p \in Procs |-> Idle]
    /\ outcome = [op |-> "init", who |-> "", status |-> "none"]
    /\ concurrent = FALSE
    /\ deleted = {}

\* CreateUserUseCase.execute up to its first await: get_by_email reads the
\* store and the invocation suspends
create_user(p, input_data) ==
    /\ upc[p] = "idle"
    /\ next_uuid + Cardinality(Suspended("create_user")) <= MaxUsers
    /\ upc' = [upc EXCEPT ![p] = "create_user"]
    /\ local' = [local EXCEPT ![p] =
                    [op |-> "create_user", input_data |-> input_data,
                     existing_user |-> get_by_email(input_data.email)]]
    /\ outcome' = Pending(p, "create_user", input_data, <<"get_by_email">>)
    /\ concurrent' = (concurrent \/ OthersSuspended(p))
    /\ UNCHANGED <<store, unique_email, next_uuid, deleted>>
    /\ UNCHANGED <<cfgVars, boundaryVars, entityVars, dbVars>>

\* execute without its "if existing_user is not None" check
create_user_resume_unchecked(p) ==
    /\ upc[p] = "create_user"
    /\ LET input_data == local[p].input_data
           entity == from_create_input(input_data)
           created == insert(_to_model(entity.user))
       IN IF entity.status = "error"
          THEN /\ outcome' = Finished(p, "create_user", input_data, <<"get_by_email">>,
                                      entity)
               /\ UNCHANGED <<store, next_uuid>>
          ELSE /\ next_uuid' = next_uuid + 1
               /\ IF created.status = "error"
                  THEN /\ outcome' = Finished(p, "create_user", input_data,
                                              <<"get_by_email", "create">>, created)
                       /\ UNCHANGED store
                  ELSE /\ store' = Append(store, _to_model(entity.user))
                       /\ outcome' = Finished(p, "create_user", input_data,
                                        <<"get_by_email", "create">>,
                                        [status |-> "ok",
                                         value |-> to_create_output(created.user)])
    /\ upc' = [upc EXCEPT ![p] = "idle"]
    /\ local' = [local EXCEPT ![p] = Idle]
    /\ UNCHANGED <<unique_email, concurrent, deleted>>
    /\ UNCHANGED <<cfgVars, boundaryVars, entityVars, dbVars>>

\* execute with the existence check and the insert in one transaction: the
\* lookup is made again when the invocation resumes
create_user_resume_atomic(p) ==
    /\ upc[p] = "create_user"
    /\ LET input_data == local[p].input_data
           entity == from_create_input(input_data)
           created == insert(_to_model(entity.user))
       IN IF get_by_email(input_data.email) # <<>>
          THEN /\ outcome' = Finished(p, "create_user", input_data, <<"get_by_email">>,
                                AppError("UserAlreadyExistsError", USER_ALREADY_EXISTS,
                                         {<<"email", input_data.email>>}))
               /\ UNCHANGED <<store, next_uuid>>
          ELSE IF entity.status = "error"
          THEN /\ outcome' = Finished(p, "create_user", input_data, <<"get_by_email">>,
                                      entity)
               /\ UNCHANGED <<store, next_uuid>>
          ELSE /\ next_uuid' = next_uuid + 1
               /\ IF created.status = "error"
                  THEN /\ outcome' = Finished(p, "create_user", input_data,
                                              <<"get_by_email", "create">>, created)
                       /\ UNCHANGED store
                  ELSE /\ store' = Append(store, _to_model(entity.user))
                       /\ outcome' = Finished(p, "create_user", input_data,
                                        <<"get_by_email", "create">>,
                                        [status |-> "ok",
                                         value |-> to_create_output(created.user)])
    /\ upc' = [upc EXCEPT ![p] = "idle"]
    /\ local' = [local EXCEPT ![p] = Idle]
    /\ UNCHANGED <<unique_email, concurrent, deleted>>
    /\ UNCHANGED <<cfgVars, boundaryVars, entityVars, dbVars>>

\* execute catching the entity's error and raising a DomainError in its place
create_user_resume_rewrapped(p) ==
    /\ upc[p] = "create_user"
    /\ LET input_data == local[p].input_data
           entity == from_create_input(input_data)
           created == insert(_to_model(entity.user))
       IN IF local[p].existing_user # <<>>
          THEN /\ outcome' = Finished(p, "create_user", input_data, <<"get_by_email">>,
                                AppError("UserAlreadyExistsError", USER_ALREADY_EXISTS,
                                         {<<"email", input_data.email>>}))
               /\ UNCHANGED <<store, next_uuid>>
          ELSE IF entity.status = "error"
          THEN /\ outcome' = Finished(p, "create_user", input_data, <<"get_by_email">>,
                                      AppError("DomainError", <<>>, {}))
               /\ UNCHANGED <<store, next_uuid>>
          ELSE /\ next_uuid' = next_uuid + 1
               /\ IF created.status = "error"
                  THEN /\ outcome' = Finished(p, "create_user", input_data,
                                              <<"get_by_email", "create">>, created)
                       /\ UNCHANGED store
                  ELSE /\ store' = Append(store, _to_model(entity.user))
                       /\ outcome' = Finished(p, "create_user", input_data,
                                        <<"get_by_email", "create">>,
                                        [status |-> "ok",
                                         value |-> to_create_output(created.user)])
    /\ upc' = [upc EXCEPT ![p] = "idle"]
    /\ local' = [local EXCEPT ![p] = Idle]
    /\ UNCHANGED <<unique_email, concurrent, deleted>>
    /\ UNCHANGED <<cfgVars, boundaryVars, entityVars, dbVars>>

\* execute building the entity before its existence check
create_user_resume_validate_first(p) ==
    /\ upc[p] = "create_user"
    /\ LET input_data == local[p].input_data
           entity == from_create_input(input_data)
           created == insert(_to_model(entity.user))
       IN IF entity.status = "error"
          THEN /\ outcome' = Finished(p, "create_user", input_data, <<"get_by_email">>,
                                      entity)
               /\ UNCHANGED <<store, next_uuid>>
          ELSE IF local[p].existing_user # <<>>
          THEN /\ outcome' = Finished(p, "create_user", input_data, <<"get_by_email">>,
                                AppError("UserAlreadyExistsError", USER_ALREADY_EXISTS,
                                         {<<"email", input_data.email>>}))
               /\ next_uuid' = next_uuid + 1
               /\ UNCHANGED store
          ELSE /\ next_uuid' = next_uuid + 1
               /\ IF created.status = "error"
                  THEN /\ outcome' = Finished(p, "create_user", input_data,
                                              <<"get_by_email", "create">>, created)
                       /\ UNCHANGED store
                  ELSE /\ store' = Append(store, _to_model(entity.user))
                       /\ outcome' = Finished(p, "create_user", input_data,
                                        <<"get_by_email", "create">>,
                                        [status |-> "ok",
                                         value |-> to_create_output(created.user)])
    /\ upc' = [upc EXCEPT ![p] = "idle"]
    /\ local' = [local EXCEPT ![p] = Idle]
    /\ UNCHANGED <<unique_email, concurrent, deleted>>
    /\ UNCHANGED <<cfgVars, boundaryVars, entityVars, dbVars>>

\* CreateUserUseCase.execute after get_by_email returned: the existence check,
\* the entity, and create on the port
create_user_resume(p) ==
    /\ upc[p] = "create_user"
    /\ LET input_data == local[p].input_data
           entity == from_create_input(input_data)
           created == insert(_to_model(entity.user))
       IN IF local[p].existing_user # <<>>
          THEN /\ outcome' = Finished(p, "create_user", input_data, <<"get_by_email">>,
                                AppError("UserAlreadyExistsError", USER_ALREADY_EXISTS,
                                         {<<"email", input_data.email>>}))
               /\ UNCHANGED <<store, next_uuid>>
          ELSE IF entity.status = "error"
          THEN /\ outcome' = Finished(p, "create_user", input_data, <<"get_by_email">>,
                                      entity)
               /\ UNCHANGED <<store, next_uuid>>
          ELSE /\ next_uuid' = next_uuid + 1
               /\ IF created.status = "error"
                  THEN /\ outcome' = Finished(p, "create_user", input_data,
                                              <<"get_by_email", "create">>, created)
                       /\ UNCHANGED store
                  ELSE /\ store' = Append(store, _to_model(entity.user))
                       /\ outcome' = Finished(p, "create_user", input_data,
                                        <<"get_by_email", "create">>,
                                        [status |-> "ok",
                                         value |-> to_create_output(created.user)])
    /\ upc' = [upc EXCEPT ![p] = "idle"]
    /\ local' = [local EXCEPT ![p] = Idle]
    /\ UNCHANGED <<unique_email, concurrent, deleted>>
    /\ UNCHANGED <<cfgVars, boundaryVars, entityVars, dbVars>>

\* GetUserByIdUseCase.execute: UUID(user_id), get_by_id on the port, and the
\* projection; its one read of the store is its one step
get_user(p, user_id) ==
    /\ upc[p] = "idle"
    /\ LET uuid == UUID(user_id)
           user == get_by_id(uuid.uuid)
       IN outcome' =
            IF ~uuid.ok
            THEN Finished(p, "get_user", user_id, <<>>,
                          AppError("DomainError", <<>>, {}))
            ELSE IF user = <<>>
            THEN Finished(p, "get_user", user_id, <<"get_by_id">>,
                          AppError("UserNotFoundError", <<>>, {}))
            ELSE Finished(p, "get_user", user_id, <<"get_by_id">>,
                          [status |-> "ok",
                           value |-> [id |-> str(user[1].id), email |-> user[1].email,
                                      name |-> user[1].name,
                                      is_active |-> user[1].is_active]])
    /\ concurrent' = (concurrent \/ OthersSuspended(p))
    /\ UNCHANGED <<store, unique_email, next_uuid, upc, local, deleted>>
    /\ UNCHANGED <<cfgVars, boundaryVars, entityVars, dbVars>>

\* DeleteUserUseCase.execute up to the await inside the port's delete: the id
\* is parsed and the SELECT reads the store
delete_user(p, user_id) ==
    /\ upc[p] = "idle"
    /\ LET uuid == UUID(user_id) IN
       IF ~uuid.ok
       THEN /\ outcome' = Finished(p, "delete_user", user_id, <<>>,
                                   AppError("DomainException", <<>>, {}))
            /\ UNCHANGED <<upc, local>>
       ELSE /\ upc' = [upc EXCEPT ![p] = "delete_user"]
            /\ local' = [local EXCEPT ![p] =
                            [op |-> "delete_user", user_id |-> user_id,
                             uuid |-> uuid.uuid, model |-> get_by_id(uuid.uuid)]]
            /\ outcome' = Pending(p, "delete_user", user_id, <<"delete">>)
    /\ concurrent' = (concurrent \/ OthersSuspended(p))
    /\ UNCHANGED <<store, unique_email, next_uuid, deleted>>
    /\ UNCHANGED <<cfgVars, boundaryVars, entityVars, dbVars>>

\* DeleteUserUseCase.execute after the SELECT: the port returns False for no
\* row, else deletes the row and commits; False becomes UserNotFoundError
delete_user_resume(p) ==
    /\ upc[p] = "delete_user"
    /\ IF local[p].model = <<>>
       THEN /\ outcome' = Finished(p, "delete_user", local[p].user_id, <<"delete">>,
                                   AppError("UserNotFoundError", <<>>, {}))
            /\ UNCHANGED <<store, deleted>>
       ELSE /\ store' = without(local[p].uuid)
            /\ deleted' = deleted \cup {local[p].uuid}
            /\ outcome' = Finished(p, "delete_user", local[p].user_id, <<"delete">>,
                                   [status |-> "ok", value |-> TRUE])
    /\ upc' = [upc EXCEPT ![p] = "idle"]
    /\ local' = [local EXCEPT ![p] = Idle]
    /\ UNCHANGED <<unique_email, next_uuid, concurrent>>
    /\ UNCHANGED <<cfgVars, boundaryVars, entityVars, dbVars>>

\* ------------------------------------------------------------- repository port
\* the port driven directly by one caller over one session, each call run to
\* completion; entities handed to it went through the constructor
RepoEmails == {e \in Emails : contains(e, "@")}
RepoUsers ==
    [id : 1..(MaxUsers + 1), email : RepoEmails, name : {<<"B", "o">>},
     is_active : BOOLEAN, updated_at : {"t1"}]
Returned(op, arg, result) ==
    [op |-> op, who |-> "", arg |-> arg, status |-> result.status, result |-> result]

\* SQLAlchemyUserRepository.create
create(email) ==
    /\ next_uuid <= MaxUsers
    /\ LET user == User(next_uuid, email, <<"A", "l">>, TRUE, "None").user
           created == insert(_to_model(user))
       IN /\ outcome' = Returned("create", user, created)
          /\ store' = IF created.status = "ok" THEN Append(store, _to_model(user))
                      ELSE store
    /\ next_uuid' = next_uuid + 1
    /\ UNCHANGED <<unique_email, upc, local, concurrent, deleted>>
    /\ UNCHANGED <<cfgVars, boundaryVars, entityVars, dbVars>>

\* SQLAlchemyUserRepository.get_by_id, called on the port
call_get_by_id(uuid) ==
    /\ outcome' = Returned("get_by_id", uuid, [status |-> "ok", value |-> get_by_id(uuid)])
    /\ UNCHANGED <<store, unique_email, next_uuid, upc, local, concurrent, deleted>>
    /\ UNCHANGED <<cfgVars, boundaryVars, entityVars, dbVars>>

\* SQLAlchemyUserRepository.get_by_email, called on the port
call_get_by_email(email) ==
    /\ outcome' = Returned("get_by_email", email,
                           [status |-> "ok", value |-> get_by_email(email)])
    /\ UNCHANGED <<store, unique_email, next_uuid, upc, local, concurrent, deleted>>
    /\ UNCHANGED <<cfgVars, boundaryVars, entityVars, dbVars>>

\* SQLAlchemyUserRepository.update: ValueError when no row has the id; else
\* the four columns are assigned and committed, which a UNIQUE constraint
\* on email refuses when another row holds the new email
update(user) ==
    /\ LET rows == {i \in DOMAIN store : store[i].id = str(user.id)}
           model == [id |-> str(user.id), email |-> user.email, name |-> user.name,
                     is_active |-> user.is_active, updated_at |-> user.updated_at]
           taken == \E i \in DOMAIN store \ rows : store[i].email = user.email
       IN IF rows = {}
          THEN /\ outcome' = Returned("update", user,
                               [status |-> "error", kind |-> "ValueError",
                                code |-> <<>>, details |-> {}])
               /\ UNCHANGED store
          ELSE IF unique_email /\ taken
          THEN /\ outcome' = Returned("update", user,
                               [status |-> "error", kind |-> "IntegrityError",
                                code |-> <<>>, details |-> {}])
               /\ UNCHANGED store
          ELSE /\ store' = [i \in DOMAIN store |-> IF i \in rows THEN model ELSE store[i]]
               /\ outcome' = Returned("update", user,
                                      [status |-> "ok", user |-> _to_entity(model)])
    /\ UNCHANGED <<unique_email, next_uuid, upc, local, concurrent, deleted>>
    /\ UNCHANGED <<cfgVars, boundaryVars, entityVars, dbVars>>

\* delete raising for an unknown id, as update does
delete_unknown_raises(uuid) ==
    /\ IF get_by_id(uuid) = <<>>
       THEN /\ outcome' = Returned("delete", uuid,
                            [status |-> "error", kind |-> "ValueError",
                             code |-> <<>>, details |-> {}])
            /\ UNCHANGED <<store, deleted>>
       ELSE /\ store' = without(uuid)
            /\ deleted' = deleted \cup {uuid}
            /\ outcome' = Returned("delete", uuid, [status |-> "ok", value |-> TRUE])
    /\ UNCHANGED <<unique_email, next_uuid, upc, local, concurrent>>
    /\ UNCHANGED <<cfgVars, boundaryVars, entityVars, dbVars>>

\* SQLAlchemyUserRepository.delete
delete(uuid) ==
    /\ IF get_by_id(uuid) = <<>>
       THEN /\ outcome' = Returned("delete", uuid, [status |-> "ok", value |-> FALSE])
            /\ UNCHANGED <<store, deleted>>
       ELSE /\ store' = without(uuid)
            /\ deleted' = deleted \cup {uuid}
            /\ outcome' = Returned("delete", uuid, [status |-> "ok", value |-> TRUE])
    /\ UNCHANGED <<unique_email, next_uuid, upc, local, concurrent>>
    /\ UNCHANGED <<cfgVars, boundaryVars, entityVars, dbVars>>

\* ------------------------------------------------------------------ GetAllUsers
\* skip and limit as a caller may pass them: nothing restricts the integers
Skips == {-1, 0, 1, 3}
Limits == {-1, 0, 1, 100}
\* the storage engines the session may be bound to
Engines == {"postgresql", "sqlite"}

\* rows[from..], at most count of them
Page(rows, from, count) ==
    SubSeq(rows, from + 1, IF from + count < Len(rows) THEN from + count ELSE Len(rows))

\* SQLAlchemyUserRepository.get_all: SELECT ... OFFSET skip LIMIT limit, each
\* row made an entity. A negative OFFSET or LIMIT is refused by PostgreSQL;
\* SQLite reads a negative OFFSET as 0 and a negative LIMIT as no limit.
get_all(skip, limit, engine) ==
    IF (skip < 0 \/ limit < 0) /\ engine = "postgresql"
    THEN [status |-> "error", kind |-> "DBAPIError", code |-> <<>>, details |-> {}]
    ELSE LET rows == Page(store, IF skip < 0 THEN 0 ELSE skip,
                          IF limit < 0 THEN Len(store) ELSE limit)
         IN [status |-> "ok", users |-> [i \in DOMAIN rows |-> _to_entity(rows[i])]]

\* execute bounding its arguments before it calls the port
get_all_users_clamped(p, skip, limit, engine) ==
    /\ upc[p] = "idle"
    /\ LET called == [skip |-> IF skip < 0 THEN 0 ELSE skip,
                      limit |-> IF limit < 0 THEN 0 ELSE limit]
           found == get_all(called.skip, called.limit, engine)
       IN outcome' =
            Finished(p, "get_all_users", [skip |-> skip, limit |-> limit], <<"get_all">>,
                     [status |-> "ok", called |-> called, users |-> found.users,
                      value |-> [i \in DOMAIN found.users |->
                                   [id |-> str(found.users[i].id),
                                    email |-> found.users[i].email,
                                    name |-> found.users[i].name,
                                    is_active |-> found.users[i].is_active]]])
    /\ concurrent' = (concurrent \/ OthersSuspended(p))
    /\ UNCHANGED <<store, unique_email, next_uuid, upc, local, deleted>>
    /\ UNCHANGED <<cfgVars, boundaryVars, entityVars, dbVars>>

\* GetAllUsersUseCase.execute: get_all on the port, then one GetUserOutput per
\* user; an error of the port is not caught
get_all_users(p, skip, limit, engine) ==
    /\ upc[p] = "idle"
    /\ LET called == [skip |-> skip, limit |-> limit]
           found == get_all(called.skip, called.limit, engine)
       IN outcome' =
            IF found.status = "error"
            THEN Finished(p, "get_all_users", [skip |-> skip, limit |-> limit],
                          <<"get_all">>, [called |-> called] @@ found)
            ELSE Finished(p, "get_all_users", [skip |-> skip, limit |-> limit],
                          <<"get_all">>,
                          [status |-> "ok", called |-> called, users |-> found.users,
                           value |-> [i \in DOMAIN found.users |->
                                        [id |-> str(found.users[i].id),
                                         email |-> found.users[i].email,
                                         name |-> found.users[i].name,
                                         is_active |-> found.users[i].is_active]]])
    /\ concurrent' = (concurrent \/ OthersSuspended(p))
    /\ UNCHANGED <<store, unique_email, next_uuid, upc, local, deleted>>
    /\ UNCHANGED <<cfgVars, boundaryVars, entityVars, dbVars>>

\* --------------------------------------------------------------- error boundary
\* the classes of the AppErrors a request may raise
ErrorClasses ==
    {"AppError", "ResourceNotFoundError", "ResourceConflictError", "DomainError",
     "ValidationError", "BusinessRuleError", "InvalidOperationError",
     "AuthenticationError", "AuthorizationError", "UserNotFoundError",
     "UserAlreadyExistsError", "UserNotFound", "ConflictingDomainError",
     "ForbiddenNotFoundError"}

\* the code argument of AppError.__init__: None (<<>>) or a text (<<text>>),
\* the empty text included
CodeArgs == {<<>>, << <<>> >>, <<USER_NOT_FOUND>>, << <<"E", "4", "2">> >>}
Messages == {"User with ID 1 not found", "connection to db-1 refused"}
DetailArgs == {{}, {<<"user_id", "1">>}}
Times == {"t1", "t2"}
Requests ==
    {[path |-> "/api/v1/users", method |-> "POST", headers |-> {}],
     [path |-> "/api/v1/users/1", method |-> "GET", headers |-> {}],
     [path |-> "/api/v1/users/1", method |-> "GET",
      headers |-> {<<"X-Request-ID", "req-1">>}],
     [path |-> "/api/v1/users/1", method |-> "DELETE",
      headers |-> {<<"Accept", "*/*">>}]}

NoError == [status |-> "none"]
NoArgs == [cls |-> "none"]
NoResponse == [status_code |-> 0]

InitBoundary ==
    /\ exc = NoError
    /\ args = NoArgs
    /\ rederived = <<>>
    /\ request \in Requests
    /\ response = NoResponse
    /\ records = <<>>

\* the request being served raises cls(message, code=code, details=details)
\* and the error travels to the boundary
raise_error(cls, message, code, details) ==
    /\ exc = NoError
    /\ exc' = [message |-> message]
              @@ AppError(cls, IF code = <<>> THEN <<>> ELSE code[1], details)
    /\ args' = [cls |-> cls, message |-> message, code |-> code, details |-> details]
    /\ UNCHANGED <<rederived, request, response, records>>
    /\ UNCHANGED <<cfgVars, userVars, entityVars, dbVars>>

\* exc._default_code() called once more on the raised error
rederive ==
    /\ exc # NoError
    /\ rederived = <<>>
    /\ rederived' = <<_default_code(exc.kind)>>
    /\ UNCHANGED <<exc, args, request, response, records>>
    /\ UNCHANGED <<cfgVars, userVars, entityVars, dbVars>>

\* status_map of _get_status_code_for_exception, in its declared order
status_map ==
    << <<"ResourceNotFoundError", 404>>, <<"ResourceConflictError", 409>>,
       <<"DomainError", 400>>, <<"AuthenticationError", 401>>,
       <<"AuthorizationError", 403>> >>

\* the mapper with "type(exc) is exc_class" in place of isinstance
_get_status_code_for_exception_exact(e) ==
    LET hits == {i \in DOMAIN status_map : e.kind = status_map[i][1]}
    IN IF hits = {} THEN 500
       ELSE status_map[CHOOSE i \in hits : \A j \in hits : i <= j][2]

\* _get_status_code_for_exception: the first entry exc is an instance of
_get_status_code_for_exception(e) ==
    LET hits == {i \in DOMAIN status_map : isinstance(e.kind, status_map[i][1])}
    IN IF hits = {} THEN 500
       ELSE status_map[CHOOSE i \in hits : \A j \in hits : i <= j][2]

\* request.headers.get("X-Request-ID"): the value, or None
_get_request_id(req) ==
    LET values == {h[2] : h \in {g \in req.headers : g[1] = "X-Request-ID"}}
    IN IF values = {} THEN <<>> ELSE <<CHOOSE v \in values : TRUE>>

\* the body app_exception_handler builds
error_response(e, req, now) ==
    [error |-> [code |-> e.code, message |-> e.message,
                details |-> IF e.details = {} THEN <<>> ELSE <<e.details>>,
                timestamp |-> now, request_id |-> _get_request_id(req)]]

\* _log_error with logger.warning on both branches
_log_error_warning_only(e, req, status_code) ==
    [level |-> "WARNING", msg |-> <<"Client error: ", e.code, " - ", e.message>>,
     exc_info |-> <<>>,
     extra |-> [error_code |-> e.code, path |-> req.path, method |-> req.method,
                status_code |-> status_code]]

\* _log_error: the one record it hands to the logger
_log_error(e, req, status_code) ==
    IF 400 <= status_code /\ status_code < 500
    THEN [level |-> "WARNING", msg |-> <<"Client error: ", e.code, " - ", e.message>>,
          exc_info |-> <<>>,
          extra |-> [error_code |-> e.code, path |-> req.path, method |-> req.method,
                     status_code |-> status_code]]
    ELSE [level |-> "ERROR", msg |-> <<"Server error: ", e.code, " - ", e.message>>,
          exc_info |-> <<e>>,
          extra |-> [error_code |-> e.code, path |-> req.path, method |-> req.method,
                     status_code |-> status_code]]

\* app_exception_handler: status, body, log record, response
app_exception_handler(now) ==
    /\ exc # NoError
    /\ response = NoResponse
    /\ LET status_code == _get_status_code_for_exception(exc)
       IN /\ response' = [status_code |-> status_code,
                          content |-> error_response(exc, request, now)]
          /\ records' = Append(records, _log_error(exc, request, status_code))
    /\ UNCHANGED <<exc, args, rederived, request>>
    /\ UNCHANGED <<cfgVars, userVars, entityVars, dbVars>>

\* ------------------------------------------------------------------ user entity
InitEntity ==
    /\ self = <<>>
    /\ constructed = <<>>
    /\ returned = [op |-> "init"]

\* what a caller may pass to the constructor and to update_name
EntityEmails == Emails \cup {<<>>, <<"@">>}
EntityNames == Names \cup {<<>>, <<" ", "B", "o", " ">>, <<"\t", " ">>}
\* values of uuid4()
Ids == 1..MaxUsers

\* User(email=email, name=name): the dataclass fills id, is_active, created_at
\* and updated_at with their defaults and runs __post_init__; on an error no
\* object comes to exist and the caller keeps what it held
construct(uuid, email, name, now) ==
    /\ LET made == User(uuid, email, name, TRUE, "None")
       IN IF made.status = "error"
          THEN /\ returned' = [op |-> "User", email |-> email, name |-> name,
                               status |-> "error", error |-> made]
               /\ UNCHANGED <<self, constructed>>
          ELSE /\ self' = <<[created_at |-> now] @@ made.user>>
               /\ constructed' = <<[id |-> uuid, created_at |-> now]>>
               /\ returned' = [op |-> "User", email |-> email, name |-> name,
                               status |-> "ok"]
    /\ UNCHANGED <<cfgVars, userVars, boundaryVars, dbVars>>

\* User.deactivate
deactivate(now) ==
    /\ self # <<>>
    /\ self' = <<[self[1] EXCEPT !.is_active = FALSE, !.updated_at = now]>>
    /\ returned' = [op |-> "deactivate", status |-> "ok"]
    /\ UNCHANGED constructed
    /\ UNCHANGED <<cfgVars, userVars, boundaryVars, dbVars>>

\* activate leaving updated_at alone
activate_unstamped(now) ==
    /\ self # <<>>
    /\ self' = <<[self[1] EXCEPT !.is_active = TRUE]>>
    /\ returned' = [op |-> "activate", status |-> "ok"]
    /\ UNCHANGED constructed
    /\ UNCHANGED <<cfgVars, userVars, boundaryVars, dbVars>>

\* User.activate
activate(now) ==
    /\ self # <<>>
    /\ self' = <<[self[1] EXCEPT !.is_active = TRUE, !.updated_at = now]>>
    /\ returned' = [op |-> "activate", status |-> "ok"]
    /\ UNCHANGED constructed
    /\ UNCHANGED <<cfgVars, userVars, boundaryVars, dbVars>>

\* update_name storing the trimmed name before it validates
update_name_assign_first(new_name, now) ==
    /\ self # <<>>
    /\ IF new_name = <<>> \/ Len(strip(new_name)) = 0
       THEN /\ self' = <<[self[1] EXCEPT !.name = strip(new_name)]>>
            /\ returned' = [op |-> "update_name", new_name |-> new_name,
                            status |-> "error",
                            error |-> AppError("ValidationError", INVALID_NAME_FORMAT,
                                               {<<"name", new_name>>})]
       ELSE /\ self' = <<[self[1] EXCEPT !.name = strip(new_name),
                                         !.updated_at = now]>>
            /\ returned' = [op |-> "update_name", new_name |-> new_name,
                            status |-> "ok"]
    /\ UNCHANGED constructed
    /\ UNCHANGED <<cfgVars, userVars, boundaryVars, dbVars>>

\* update_name without its validation
update_name_unvalidated(new_name, now) ==
    /\ self # <<>>
    /\ self' = <<[self[1] EXCEPT !.name = strip(new_name), !.updated_at = now]>>
    /\ returned' = [op |-> "update_name", new_name |-> new_name, status |-> "ok"]
    /\ UNCHANGED constructed
    /\ UNCHANGED <<cfgVars, userVars, boundaryVars, dbVars>>

\* User.update_name: the check raises before anything is assigned
update_name(new_name, now) ==
    /\ self # <<>>
    /\ IF new_name = <<>> \/ Len(strip(new_name)) = 0
       THEN /\ returned' = [op |-> "update_name", new_name |-> new_name,
                            status |-> "error",
                            error |-> AppError("ValidationError", INVALID_NAME_FORMAT,
                                               {<<"name", new_name>>})]
            /\ UNCHANGED self
       ELSE /\ self' = <<[self[1] EXCEPT !.name = strip(new_name),
                                         !.updated_at = now]>>
            /\ returned' = [op |-> "update_name", new_name |-> new_name,
                            status |-> "ok"]
    /\ UNCHANGED constructed
    /\ UNCHANGED <<cfgVars, userVars, boundaryVars, dbVars>>

\* ------------------------------------------------------------- request sessions
Reqs == 1..MaxRequests
\* how the endpoint under the dependency ends: it returns, or raises an
\* AppError, another exception, or the cancellation of a dropped request
Exits == {"returned", "AppError", "Exception", "CancelledError"}

InitDb ==
    /\ sessions = [q \in Reqs |-> "none"]
    /\ handling = [q \in Reqs |-> [st |-> "idle", exit |-> "none"]]

\* get_db up to its yield: AsyncSessionLocal() is entered and the session is
\* handed to the request
get_db(q) ==
    /\ handling[q].st = "idle"
    /\ sessions' = [sessions EXCEPT ![q] = "open"]
    /\ handling' = [handling EXCEPT ![q].st = "yielded"]
    /\ UNCHANGED <<cfgVars, userVars, boundaryVars, entityVars>>

\* the endpoint that was given the session returns or raises
endpoint(q, exit) ==
    /\ handling[q].st = "yielded"
    /\ handling' = [handling EXCEPT ![q] = [st |-> "unwinding", exit |-> exit]]
    /\ UNCHANGED sessions
    /\ UNCHANGED <<cfgVars, userVars, boundaryVars, entityVars>>

\* get_db written as "session = AsyncSessionLocal(); yield session;
\* await session.close()": an exception thrown in at the yield skips the close
get_db_resume_no_context(q) ==
    /\ handling[q].st = "unwinding"
    /\ sessions' = [sessions EXCEPT ![q] =
                       IF handling[q].exit = "returned" THEN "closed" ELSE @]
    /\ handling' = [handling EXCEPT ![q].st = "finished"]
    /\ UNCHANGED <<cfgVars, userVars, boundaryVars, entityVars>>

\* get_db after its yield: the generator is resumed, or the endpoint's
\* exception is thrown in at the yield; either way the "async with" block is
\* left and its __aexit__ closes the session
get_db_resume(q) ==
    /\ handling[q].st = "unwinding"
    /\ sessions' = [sessions EXCEPT ![q] = "closed"]
    /\ handling' = [handling EXCEPT ![q].st = "finished"]
    /\ UNCHANGED <<cfgVars, userVars, boundaryVars, entityVars>>

Init ==
    /\ InitConfig
    /\ InitDb
    /\ env_file \in EnvContents
    /\ InitUsers
    /\ unique_email = TRUE
    /\ InitBoundary
    /\ request = [path |-> "/api/v1/users", method |-> "POST", headers |-> {}]
    /\ InitEntity

Next ==
    \/ \E c \in Callers : start(c)
    \/ \E c \in Callers : stop(c)
    \/ \E c \in Callers : stop_resume(c)
    \/ \E t \in TaskIds : _watch_loop(t)
    \/ \E v \in EnvContents : write_env(v)
    \/ write_other
    \/ \E r \in Readers : get_settings(r)

Spec == Init /\ [][Next]_vars

\* the use cases alone, the configuration store at rest, over a storage with
\* or without the UNIQUE constraint on email
UserInit ==
    /\ InitConfig
    /\ InitDb
    /\ env_file = [APP_NAME |-> "unset", EXTRA |-> "unset"]
    /\ InitUsers
    /\ unique_email \in BOOLEAN
    /\ InitBoundary
    /\ request = [path |-> "/api/v1/users", method |-> "POST", headers |-> {}]
    /\ InitEntity

UserNext ==
    \/ \E p \in Procs, input_data \in CreateInputs : create_user(p, input_data)
    \/ \E p \in Procs : create_user_resume(p)
    \/ \E p \in Procs, user_id \in IdStrings : get_user(p, user_id)
    \/ \E p \in Procs, user_id \in IdStrings : delete_user(p, user_id)
    \/ \E p \in Procs : delete_user_resume(p)

UserSpec == UserInit /\ [][UserNext]_vars

\* the repository port alone, over a storage with or without the UNIQUE
\* constraint on email
RepoNext ==
    \/ \E email \in RepoEmails : create(email)
    \/ \E uuid \in 1..(MaxUsers + 1) : call_get_by_id(uuid)
    \/ \E email \in Emails : call_get_by_email(email)
    \/ \E user \in RepoUsers : update(user)
    \/ \E uuid \in 1..(MaxUsers + 1) : delete(uuid)

RepoSpec == UserInit /\ [][RepoNext]_vars

\* GetAllUsers over the stores the port's create, update and delete produce
ListNext ==
    \/ \E email \in RepoEmails : create(email)
    \/ \E user \in RepoUsers : update(user)
    \/ \E uuid \in 1..MaxUsers : delete(uuid)
    \/ \E p \in Procs, skip \in Skips, limit \in Limits, engine \in Engines :
          get_all_users(p, skip, limit, engine)

ListSpec == UserInit /\ [][ListNext]_vars

\* the error boundary alone: errors of every class raised and handled
BoundaryInit ==
    /\ InitConfig
    /\ InitDb
    /\ env_file = [APP_NAME |-> "unset", EXTRA |-> "unset"]
    /\ InitUsers
    /\ unique_email = TRUE
    /\ InitBoundary
    /\ InitEntity

BoundaryNext ==
    \/ \E cls \in ErrorClasses, message \in Messages, code \in CodeArgs,
          details \in DetailArgs : raise_error(cls, message, code, details)
    \/ rederive
    \/ \E now \in Times : app_exception_handler(now)

BoundarySpec == BoundaryInit /\ [][BoundaryNext]_vars

\* one User entity alone: constructed, then mutated through its methods
EntityInit ==
    /\ BoundaryInit
    /\ request = [path |-> "/api/v1/users", method |-> "POST", headers |-> {}]

EntityNext ==
    \/ \E uuid \in Ids, email \in EntityEmails, name \in EntityNames, now \in Times :
          construct(uuid, email, name, now)
    \/ \E now \in Times : deactivate(now)
    \/ \E now \in Times : activate(now)
    \/ \E new_name \in EntityNames, now \in Times : update_name(new_name, now)

EntitySpec == EntityInit /\ [][EntityNext]_vars

\* requests alone, each with the session get_db gives it
SessionNext ==
    \/ \E q \in Reqs : get_db(q)
    \/ \E q \in Reqs, exit \in Exits : endpoint(q, exit)
    \/ \E q \in Reqs : get_db_resume(q)

SessionSpec == EntityInit /\ [][SessionNext]_vars

\* ------------------------------------------------- configuration store claims
LiveTasks == {t \in TaskIds : Live(t)}

\* C1: an error raised by the change-event read is logged and does not end
\* the watch loop: after a non-cancellation exception from the stream the
\* watch task is still running (suspended on the next read), so that it
\* reacts to later changes of the file.
C1_ErrorKeepsLoopRunning ==
    [][last'.op = "watch_error" => tasks'[last'.who].st = "watching"]_vars

\* C2: whenever a call of stop() returns, also a second stop() issued while an
\* earlier one still waits, the watch task spawned by the preceding start()
\* has terminated.
C2_StopReturnsAfterTaskEnded ==
    [][(/\ last'.op = "stop"
        /\ last'.ret \in {"returned", "noop"}
        /\ last'.who # NoTask)
       => tasks'[last'.who].st \in {"finished", "cancelled"}]_vars

\* C3: start() on a running reloader creates no task and changes no state of
\* the reloader, and as long as start() and stop() calls run one after the
\* other at most one watch task exists that has not terminated.
C3_StartIdempotent ==
    /\ [](~overlap => Cardinality(LiveTasks) <= 1)
    /\ [][(last'.op = "start" /\ _running)
          => /\ last'.ret = "noop"
             /\ UNCHANGED <<_running, _task, tasks, pc, waits, cache, snapshots>>]_vars

C3_Witness ==
    /\ last.op = "start"
    /\ last.ret = "noop"
    /\ ~overlap
    /\ Cardinality(LiveTasks) = 1
    /\ Cardinality(Created) = 2

\* C4: once the watcher has received a change event for the .env file, the
\* next accessor call returns a snapshot that did not exist before, built from
\* the content the file has at that call.
C4_HotReload ==
    [][(last'.op = "get_settings" /\ reloaded)
       => /\ held'[last'.who] > Len(snapshots)
          /\ held'[last'.who] # cache
          /\ snapshots'[held'[last'.who]] = Settings(env_file)
          /\ cache' = held'[last'.who]]_vars

C4_Witness ==
    /\ last.op = "get_settings"
    /\ last.ret = "miss"
    /\ Len(snapshots) = 2
    /\ held[last.who] = 2
    /\ snapshots[2] # snapshots[1]
    /\ snapshots[2] = Settings(env_file)
    /\ _running

\* C5: once stop() has returned and the reloader has not been started again,
\* no step clears or replaces a cached snapshot, whatever is written to the
\* file and whatever events were pending when the task was cancelled.
C5_NoReloadAfterStop ==
    [][(stopReturned /\ ~_running)
       => (cache # NoSnapshot => cache' = cache)]_vars

C5_Witness ==
    /\ stopReturned
    /\ ~_running
    /\ last.op = "write_env"
    /\ cache # NoSnapshot
    /\ snapshots[cache] # Settings(env_file)
    /\ \E t \in TaskIds : tasks[t].st = "cancelled" /\ ENV_FILE \in tasks[t].changes

\* C23: the watcher invalidates the cache only for the configuration file: a
\* batch of change events naming only other paths of the watched directory
\* leaves the cached snapshot as it is, and a batch naming the .env file
\* invalidates the cache once, the batch being consumed by that one step.
C23_OnlyEnvFileInvalidates ==
    [][last'.op = "watch_changes"
       => LET batch == tasks[last'.who].changes
          IN /\ batch # {}
             /\ tasks'[last'.who].changes = {}
             /\ snapshots' = snapshots
             /\ ENV_FILE \notin batch => cache' = cache /\ last'.ret = "ignored"
             /\ ENV_FILE \in batch => cache' = NoSnapshot /\ last'.ret = "cleared"]_vars

\* a batch naming only another file was read while the second snapshot
\* built was cached, and left it cached
C23_Witness ==
    /\ last.op = "watch_changes"
    /\ last.ret = "ignored"
    /\ cache = 2
    /\ held[CHOOSE r \in Readers : TRUE] = 2

\* C25: when the watch task has ended by an error that is no cancellation,
\* the reloader still counts as running: the error leaves the running flag
\* set, a following start() is a no-op that spawns no task, and no step
\* invalidates the cache for as long as that lasts, whatever is written to
\* the file; "running" does not imply that a live watch task exists.
C25_DeadTaskStillRunning ==
    [][/\ last'.op = "watch_error" => _running' = _running /\ _task' = _task
       /\ (_running /\ _task # NoTask /\ tasks[_task].st = "finished")
          => /\ last'.op = "start"
                  => /\ last'.ret = "noop"
                     /\ UNCHANGED <<_running, _task, tasks>>
             /\ cache # NoSnapshot => cache' = cache]_vars

\* the task of a running reloader has ended by an error, the file was
\* rewritten after the snapshot in the cache was built, and start() has
\* returned without spawning a task
C25_Witness ==
    /\ last.op = "start"
    /\ last.ret = "noop"
    /\ _running
    /\ tasks[_task].st = "finished"
    /\ LiveTasks = {}
    /\ cache # NoSnapshot
    /\ snapshots[cache] # Settings(env_file)

\* C26: in every interleaving of concurrent start() and stop() calls on one
\* reloader at most one watch task that has not terminated exists at any
\* time, and once all calls have returned a live watch task exists exactly
\* when the running flag is true.
C26_AtMostOneLiveTask ==
    /\ Cardinality(LiveTasks) <= 1
    /\ (\A c \in Callers : pc[c] = "idle") => (LiveTasks # {} <=> _running)

\* C6: an accessor call that finds the cache filled returns the cached object
\* and leaves the cache alone; a snapshot once constructed never changes; the
\* current reference only ever changes to "none" or to a newly built object.
C6_CachedImmutableSnapshots ==
    [][/\ (last'.op = "get_settings" /\ cache # NoSnapshot)
          => (held'[last'.who] = cache /\ cache' = cache /\ snapshots' = snapshots)
       /\ Len(snapshots') >= Len(snapshots)
       /\ \A i \in 1..Len(snapshots) : snapshots'[i] = snapshots[i]
       /\ cache' # cache => (cache' = NoSnapshot \/ cache' > Len(snapshots))]_vars

C6_Witness ==
    /\ last.op = "get_settings"
    /\ last.ret = "hit"
    /\ held[last.who] = cache
    /\ cache = 2
    /\ snapshots[1] # snapshots[2]

\* ------------------------------------------------------------ use case claims
HasEmail(rows, email) == \E i \in DOMAIN rows : rows[i].email = email
DuplicateEmails ==
    \E i, j \in DOMAIN store : i < j /\ store[i].email = store[j].email
CreateDone == outcome'.op = "create_user" /\ outcome'.status # "pending"

\* C7: with invocations running one after the other, a CreateUser whose email
\* a stored user already has fails with UserAlreadyExistsError (a
\* ResourceConflictError), code USER_ALREADY_EXISTS, details.email the input
\* email, and writes nothing; so the store never holds two users with one email.
C7_SequentialDuplicateRejected ==
    /\ [](~concurrent => ~DuplicateEmails)
    /\ [][(~concurrent' /\ CreateDone /\ HasEmail(store, outcome'.arg.email))
          => /\ outcome'.status = "error"
             /\ outcome'.result.kind = "UserAlreadyExistsError"
             /\ isinstance(outcome'.result.kind, "ResourceConflictError")
             /\ outcome'.result.code = USER_ALREADY_EXISTS
             /\ outcome'.result.details = {<<"email", outcome'.arg.email>>}
             /\ store' = store]_vars

C7_Witness ==
    /\ ~concurrent
    /\ outcome.op = "create_user"
    /\ outcome.status = "error"
    /\ outcome.result.kind = "UserAlreadyExistsError"
    /\ HasEmail(store, outcome.arg.email)

\* C8: an invocation that got "absent" from get_by_email for a valid input
\* still calls create on the port when another invocation has stored that
\* email in between; a storage without a uniqueness constraint then holds two
\* users with the email, a storage with one refuses the insert.
C8_CheckThenCreateNotAtomic ==
    [][(/\ CreateDone
        /\ local[outcome'.who].existing_user = <<>>
        /\ from_create_input(outcome'.arg).status = "ok"
        /\ HasEmail(store, outcome'.arg.email))
       => /\ outcome'.port = <<"get_by_email", "create">>
          /\ IF unique_email
             THEN outcome'.result.kind = "IntegrityError" /\ store' = store
             ELSE /\ outcome'.status = "ok"
                  /\ Len(store') = Len(store) + 1
                  /\ Cardinality({i \in DOMAIN store' :
                                    store'[i].email = outcome'.arg.email}) >= 2]_vars

C8_Witness ==
    /\ ~unique_email
    /\ DuplicateEmails
    /\ concurrent
    /\ outcome.op = "create_user"
    /\ outcome.status = "ok"
    /\ outcome.port = <<"get_by_email", "create">>

\* C9: GetUserById on text that is no UUID fails with a DomainError coded
\* INVALID_USER_ID_FORMAT whose details carry the text, without a port call;
\* on a well-formed id the store does not hold it fails with a
\* UserNotFoundError coded USER_NOT_FOUND whose details carry the id.
C9_GetUserErrorCodes ==
    [][outcome'.op = "get_user"
       => LET user_id == outcome'.arg
              uuid == UUID(user_id)
          IN /\ ~uuid.ok
                => /\ outcome'.status = "error"
                   /\ isinstance(outcome'.result.kind, "DomainError")
                   /\ outcome'.result.code = INVALID_USER_ID_FORMAT
                   /\ \E d \in outcome'.result.details : d[2] = user_id
                   /\ outcome'.port = <<>>
             /\ (uuid.ok /\ get_by_id(uuid.uuid) = <<>>)
                => /\ outcome'.status = "error"
                   /\ outcome'.result.kind = "UserNotFoundError"
                   /\ outcome'.result.code = USER_NOT_FOUND
                   /\ \E d \in outcome'.result.details : d[2] = user_id]_vars

\* C10: DeleteUser on a well-formed id the port finds no row for fails with
\* code USER_NOT_FOUND and leaves the store as it is; on an id it finds it
\* returns true and removes exactly that row; and a later GetUserById for a
\* deleted id fails with code USER_NOT_FOUND.
C10_DeleteUser ==
    [][/\ (outcome'.op = "delete_user" /\ outcome'.status # "pending"
           /\ UUID(outcome'.arg).ok)
          => IF local[outcome'.who].model = <<>>
             THEN /\ outcome'.status = "error"
                  /\ outcome'.result.code = USER_NOT_FOUND
                  /\ store' = store
             ELSE /\ outcome'.status = "ok"
                  /\ outcome'.result.value = TRUE
                  /\ store' = without(UUID(outcome'.arg).uuid)
       /\ (outcome'.op = "get_user" /\ UUID(outcome'.arg).ok
           /\ UUID(outcome'.arg).uuid \in deleted)
          => /\ outcome'.status = "error"
             /\ outcome'.result.code = USER_NOT_FOUND]_vars

\* ---------------------------------------------------------- error boundary claims
Handled == exc # NoError /\ response # NoResponse

\* C11: the status of a handled error is the status of the first entry of the
\* ordered table (ResourceNotFoundError 404, ResourceConflictError 409,
\* DomainError 400, AuthenticationError 401, AuthorizationError 403) the error
\* is an instance of, and 500 when it is an instance of none: a subtype gets
\* its ancestor's status, a plain AppError 500, and a subtype of two entries
\* the status of the earlier one.
C11_StatusMapping ==
    Handled =>
      LET cls == exc.kind
          status_code == response.status_code
          hits == {i \in 1..5 : isinstance(cls, status_map[i][1])}
      IN /\ status_map[1] = <<"ResourceNotFoundError", 404>>
         /\ status_map[2] = <<"ResourceConflictError", 409>>
         /\ status_map[3] = <<"DomainError", 400>>
         /\ status_map[4] = <<"AuthenticationError", 401>>
         /\ status_map[5] = <<"AuthorizationError", 403>>
         /\ hits = {} => status_code = 500
         /\ \A i \in hits : (\A j \in hits : i <= j) => status_code = status_map[i][2]
         /\ cls \in {"ResourceNotFoundError", "UserNotFoundError"} => status_code = 404
         /\ cls \in {"ResourceConflictError", "UserAlreadyExistsError"}
               => status_code = 409
         /\ cls \in {"DomainError", "ValidationError", "BusinessRuleError",
                     "InvalidOperationError"} => status_code = 400
         /\ cls = "AuthenticationError" => status_code = 401
         /\ cls = "AuthorizationError" => status_code = 403
         /\ cls \in {"AppError", "UserNotFound"} => status_code = 500
         /\ cls = "ConflictingDomainError" => status_code = 409
         /\ cls = "ForbiddenNotFoundError" => status_code = 404

\* an error that is both a DomainError and a ResourceConflictError was handled
C11_Witness ==
    /\ Handled
    /\ exc.kind = "ConflictingDomainError"
    /\ isinstance(exc.kind, "DomainError")
    /\ isinstance(exc.kind, "ResourceConflictError")
    /\ response.status_code = 409

\* the rule of the default code, read off the two texts: the code is the name
\* upper-cased with one "_" before each capital letter that is not the first
\* character, and nothing else
FollowsRule(name, code) ==
    LET caps == {i \in 2..Len(name) : IsUpper(name[i])}
        at(i) == i + Cardinality({j \in caps : j <= i})
    IN /\ Len(code) = Len(name) + Cardinality(caps)
       /\ \A i \in DOMAIN name : code[at(i)] = upper(name[i])
       /\ \A i \in caps : code[at(i) - 1] = "_"

Derived(code) ==
    /\ FollowsRule(class_name(exc.kind), code)
    /\ exc.kind = "UserNotFound" => code = USER_NOT_FOUND
    /\ exc.kind = "ResourceConflictError"
          => code = <<"R", "E", "S", "O", "U", "R", "C", "E", "_", "C", "O", "N", "F", "L", "I", "C", "T", "_", "E", "R", "R", "O", "R">>
    /\ rederived # <<>> => rederived[1] = code

HasAt(email) == \E i \in DOMAIN email : email[i] = "@"
Blank(name) == \A i \in DOMAIN name : name[i] \in Whitespace
IsValidationError(error, code) ==
    /\ error.status = "error"
    /\ error.kind = "ValidationError"
    /\ error.code = code

\* C13: constructing a User from (email, name) succeeds, with is_active true
\* and updated_at null, whenever email contains "@" and name is non-empty after
\* trimming; it fails with ValidationError INVALID_EMAIL_FORMAT whenever email
\* is empty or lacks "@", and with ValidationError INVALID_NAME_FORMAT whenever
\* email is valid and name is empty or whitespace-only.
C13_EntityConstruction ==
    returned.op = "User" =>
      /\ HasAt(returned.email) /\ ~Blank(returned.name)
           => /\ returned.status = "ok"
              /\ self # <<>>
              /\ self[1].email = returned.email
              /\ self[1].name = returned.name
              /\ self[1].is_active = TRUE
              /\ self[1].updated_at = "None"
      /\ ~HasAt(returned.email)
           => /\ returned.status = "error"
              /\ IsValidationError(returned.error, INVALID_EMAIL_FORMAT)
      /\ HasAt(returned.email) /\ Blank(returned.name)
           => /\ returned.status = "error"
              /\ IsValidationError(returned.error, INVALID_NAME_FORMAT)

\* a User was constructed from a name with surrounding blanks
C13_Witness ==
    /\ returned.op = "User"
    /\ returned.status = "ok"
    /\ returned.name = <<" ", "B", "o", " ">>
    /\ self[1].is_active
    /\ self[1].updated_at = "None"

\* C14: update_name with an empty or whitespace-only name fails with
\* ValidationError INVALID_NAME_FORMAT and leaves every field of the entity as
\* it was before the call.
C14_FailedUpdateNameLeavesEntity ==
    [][returned'.op = "update_name" /\ Blank(returned'.new_name)
         => /\ returned'.status = "error"
            /\ IsValidationError(returned'.error, INVALID_NAME_FORMAT)
            /\ self' = self]_vars

\* update_name("\t ") has failed on a deactivated, once renamed entity
C14_Witness ==
    /\ returned.op = "update_name"
    /\ returned.new_name = <<"\t", " ">>
    /\ returned.status = "error"
    /\ self # <<>>
    /\ self[1].name = <<"B", "o">>
    /\ ~self[1].is_active

\* C15: after construction and after any sequence of activate, deactivate and
\* update_name calls, successful or failed, the entity's email contains "@",
\* its name is non-empty after trimming, and its id and created_at are the
\* ones set at construction.
C15_EntityInvariant ==
    self # <<>> =>
      /\ HasAt(self[1].email)
      /\ ~Blank(self[1].name)
      /\ self[1].id = constructed[1].id
      /\ self[1].created_at = constructed[1].created_at

\* an entity that went through a rename, an activation after a deactivation,
\* and a failed rename
C15_Witness ==
    /\ self # <<>>
    /\ returned.op = "update_name"
    /\ returned.status = "error"
    /\ self[1].name = <<"B", "o">>
    /\ self[1].is_active
    /\ self[1].updated_at # "None"
    /\ self[1].updated_at # self[1].created_at

\* C16: a response with a 5xx status carries a fixed generic code and message:
\* when the handler maps an error to 500, the code and message of the body are
\* the ones any other error mapped to 500 would get, whatever that error's own
\* code, message and details.
C16_GenericServerErrorBody ==
    Handled /\ response.status_code >= 500 =>
      \A cls \in ErrorClasses, message \in Messages, code \in CodeArgs,
         details \in DetailArgs :
        LET other == [message |-> message]
                     @@ AppError(cls, IF code = <<>> THEN <<>> ELSE code[1], details)
            body == error_response(other, request, response.content.error.timestamp)
        IN _get_status_code_for_exception(other) >= 500
             => /\ body.error.code = response.content.error.code
                /\ body.error.message = response.content.error.message
                /\ body.error.details = response.content.error.details

\* C20: for every AppError handled at the boundary exactly one log record is
\* emitted, at warning level when the mapped status is in 400..499 and at
\* error level with the failure context attached otherwise; either way the
\* record carries the error code, the request path and method, and the status.
C20_LoggingPolicy ==
    /\ ~Handled => records = <<>>
    /\ Handled =>
         /\ Len(records) = 1
         /\ response.status_code \in 400..499
              => records[1].level = "WARNING"
         /\ response.status_code \notin 400..499
              => /\ records[1].level = "ERROR"
                 /\ records[1].exc_info = <<exc>>
         /\ records[1].extra.error_code = exc.code
         /\ records[1].extra.path = request.path
         /\ records[1].extra.method = request.method
         /\ records[1].extra.status_code = response.status_code

\* an unclassified AppError raised while serving DELETE /api/v1/users/1 was
\* handled and logged at error level
C20_Witness ==
    /\ Handled
    /\ exc.kind = "AppError"
    /\ request.method = "DELETE"
    /\ response.status_code = 500
    /\ Len(records) = 1
    /\ records[1].level = "ERROR"

\* ---------------------------------------------------------- repository claims
RowsWithId(rows, uuid) == {i \in DOMAIN rows : rows[i].id = str(uuid)}

\* C17: update with a user whose id matches no stored record fails with a
\* ResourceNotFoundError and leaves the store unchanged; with a matching
\* record it overwrites that record's email, name, is_active and updated_at
\* and no other record.
C17_RepositoryUpdate ==
    [][outcome'.op = "update" =>
         LET user == outcome'.arg
             rows == RowsWithId(store, user.id)
         IN /\ rows = {}
                 => /\ outcome'.status = "error"
                    /\ isinstance(outcome'.result.kind, "ResourceNotFoundError")
                    /\ store' = store
            /\ rows # {}
                 => /\ outcome'.status = "ok"
                    /\ DOMAIN store' = DOMAIN store
                    /\ \A i \in rows :
                         /\ store'[i].id = store[i].id
                         /\ store'[i].email = user.email
                         /\ store'[i].name = user.name
                         /\ store'[i].is_active = user.is_active
                         /\ store'[i].updated_at = user.updated_at
                    /\ \A i \in DOMAIN store \ rows : store'[i] = store[i]]_vars

\* C18: get_by_id and get_by_email return the absent value for an unknown key
\* and change nothing; delete returns false for an unknown id without raising
\* and without changing the store, returns true exactly when a record with
\* that id existed, and afterwards get_by_id for that id returns absent.
C18_AbsenceIsAValue ==
    [][/\ outcome'.op = "get_by_id"
            => /\ outcome'.status = "ok"
               /\ RowsWithId(store, outcome'.arg) = {} => outcome'.result.value = <<>>
               /\ store' = store
       /\ outcome'.op = "get_by_email"
            => /\ outcome'.status = "ok"
               /\ ~HasEmail(store, outcome'.arg) => outcome'.result.value = <<>>
               /\ store' = store
       /\ outcome'.op = "delete"
            => /\ outcome'.status = "ok"
               /\ outcome'.result.value = (RowsWithId(store, outcome'.arg) # {})
               /\ RowsWithId(store, outcome'.arg) = {} => store' = store
               /\ RowsWithId(store', outcome'.arg) = {}
               /\ \A uuid \in 1..(MaxUsers + 1) :
                    outcome'.arg = uuid => get_by_id(uuid)' = <<>>]_vars

\* delete has returned false for an id that is not stored while another
\* record is, after an earlier delete of a stored id
C18_Witness ==
    /\ outcome.op = "delete"
    /\ outcome.status = "ok"
    /\ outcome.result.value = FALSE
    /\ deleted # {}
    /\ outcome.arg \notin deleted
    /\ store # <<>>

\* ------------------------------------------------------------- CreateUser claims
\* what the Entity raises for an input it rejects
EntityRejection(input_data) ==
    IF ~HasAt(input_data.email)
    THEN [status |-> "error", kind |-> "ValidationError", code |-> INVALID_EMAIL_FORMAT,
          details |-> {<<"email", input_data.email>>}]
    ELSE [status |-> "error", kind |-> "ValidationError", code |-> INVALID_NAME_FORMAT,
          details |-> {<<"name", input_data.name>>}]

C21_ActivateDeactivate ==
    /\ [](returned.op \in {"activate", "deactivate", "update_name"}
            /\ returned.status = "ok"
          => self # <<>> /\ self[1].updated_at # "None")
    /\ [][returned'.op \in {"activate", "deactivate"}
            => /\ returned'.status = "ok"
               /\ self # <<>> /\ self' # <<>>
               /\ self'[1].is_active = (returned'.op = "activate")
               /\ self'[1].updated_at \in Times
               /\ self'[1].email = self[1].email
               /\ self'[1].name = self[1].name
               /\ self'[1].id = self[1].id
               /\ self'[1].created_at = self[1].created_at]_vars

\* a renamed, deactivated entity has been activated again at another time
\* than it was created
C21_Witness ==
    /\ returned.op = "activate"
    /\ returned.status = "ok"
    /\ self # <<>>
    /\ self[1].is_active
    /\ self[1].name = <<"B", "o">>
    /\ self[1].updated_at = "t2"
    /\ self[1].created_at = "t1"

\* ------------------------------------------------------------ session claims
\* C22: the storage session of a request is released on every exit path: it is
\* open while the request is handled, and whether the endpoint returned or
\* failed with any error it is closed when the handling has ended, so no
\* session stays open after its request has finished.
C22_SessionReleased ==
    \A q \in Reqs :
      /\ handling[q].st = "idle" => sessions[q] = "none"
      /\ handling[q].st \in {"yielded", "unwinding"} => sessions[q] = "open"
      /\ handling[q].st = "finished" => sessions[q] = "closed"

\* one request has finished with an error that is no AppError, another with
\* a cancellation, and both sessions are closed
C22_Witness ==
    /\ handling[1] = [st |-> "finished", exit |-> "Exception"]
    /\ handling[2] = [st |-> "finished", exit |-> "CancelledError"]
    /\ sessions[1] = "closed"
    /\ sessions[2] = "closed"


\* C24: GetAllUsers calls get_all on the port with exactly the skip and limit
\* it was given, whatever their values (negative and oversized ones included),
\* returns one projection per user the port returned, in the port's order and
\* of the same count, and leaves the store as it was.
C24_GetAllUsersPassesThrough ==
    [][outcome'.op = "get_all_users" =>
         /\ outcome'.port = <<"get_all">>
         /\ outcome'.result.called = outcome'.arg
         /\ outcome'.result.status = "ok" =>
              LET users == outcome'.result.users
                  value == outcome'.result.value
              IN /\ Len(value) = Len(users)
                 /\ \A i \in 1..Len(users) :
                      /\ value[i].id = str(users[i].id)
                      /\ value[i].email = users[i].email
                      /\ value[i].name = users[i].name
                      /\ value[i].is_active = users[i].is_active
         /\ store' = store
         /\ next_uuid' = next_uuid]_vars

\* two stored users listed with a negative skip and an oversized limit
C24_Witness ==
    /\ outcome.op = "get_all_users"
    /\ outcome.arg = [skip |-> -1, limit |-> 100]
    /\ outcome.result.status = "ok"
    /\ Len(outcome.result.value) = 2
    /\ outcome.result.value[1].id # outcome.result.value[2].id


\* C27: CreateUser checks the email's existence before it validates and
\* before it writes: when its lookup found a user with the input email, the
\* invocation fails with UserAlreadyExistsError coded USER_ALREADY_EXISTS
\* whatever the name is (a blank one included), no entity is constructed (no
\* id is drawn), create is not called on the port and the store is unchanged.
C27_ExistenceCheckFirst ==
    [][/\ CreateDone
       /\ local[outcome'.who].existing_user # <<>>
       => /\ outcome'.status = "error"
          /\ outcome'.result.kind = "UserAlreadyExistsError"
          /\ outcome'.result.code = USER_ALREADY_EXISTS
          /\ outcome'.result.details = {<<"email", outcome'.arg.email>>}
          /\ outcome'.port = <<"get_by_email">>
          /\ next_uuid' = next_uuid
          /\ store' = store]_vars

\* CreateUser with a blank name and a stored email has ended in
\* USER_ALREADY_EXISTS
C27_Witness ==
    /\ outcome.op = "create_user"
    /\ outcome.status = "error"
    /\ Blank(outcome.arg.name)
    /\ HasEmail(store, outcome.arg.email)
    /\ outcome.result.code = USER_ALREADY_EXISTS
    /\ outcome.port = <<"get_by_email">>

====
